---- MODULE Spec2Model ----
(***************************************************************************)
(* Model of the call-session engine of ringmig (Django + Channels):        *)
(* call packages (purchases), call sessions, listener payouts, the         *)
(* listener balance, the Stripe webhook handlers, the accept / end-call    *)
(* HTTP views and the per-attachment CallConsumer with its timer loop.     *)
(*                                                                         *)
(* Handlers that read a row and write it back later without a lock are     *)
(* split at that point (Load / Save, Check / Insert, TickLoad / TickAct):  *)
(* requests are served concurrently and each consumer runs its own         *)
(* asyncio task that suspends at every database call.                      *)
(* Time is counted in whole minutes.                                       *)
(*                                                                         *)
(* The specifications share the variables and the actions: Spec (one call  *)
(* with its extensions and the talker's attachment), SpecAlloc (the        *)
(* allocation of sessions for several purchases), SpecTimers (one call     *)
(* with both participants attached; SpecTimersFair adds the scheduling)    *)
(* SpecAttach (the admission of attachments under payment webhooks in any  *)
(* order and an administrator's edit), SpecRefund (rejection, refund and   *)
(* the withdrawal of payouts), SpecAmounts (the pricing snapshot of a      *)
(* purchase under template edits), SpecBalance (credits and debits of the  *)
(* listener's balance issued by concurrent workers), SpecChat (the chat    *)
(* endpoint of a conversation under blocking) and SpecWithdraw             *)
(* (withdrawals of given amounts from earned payouts).                     *)
(***************************************************************************)
EXTENDS Integers, Sequences, FiniteSets, TLC

\* ---------------------------------------------------------------- bounds
MaxPackages == 2
MaxSessions == 2
MaxTime == 2
MaxDeliveries == 2
MaxInitialPurchases == 1
MaxPrice == 6
MaxWorkers == 2
MaxEarned == 4
MaxMessages == 2
MaxPayoutRows == 3

\* ------------------------------------------------------ program constants
DurationMinutes == 1
ListenerAmount == 18
WarningThreshold == 3
SuggestionLimit == 10

None == -1

PkgIds == 1..MaxPackages
SessIds == 1..MaxSessions
Talkers == {"t1", "t2"}
Listener == "l1"
Users == Talkers \cup {Listener}
\* One attachment per participant of a call.
Consumers == {"talker", "listener"}

TerminalStatuses == {"ended", "timeout", "failed"}
OpenStatuses == {"connecting", "active"}

VARIABLES
    packages,     \* CallPackage rows: PkgIds -> row, status "none" = no row yet
    sessions,     \* CallSession rows: SessIds -> row, status "none" = no row yet
    payouts,      \* ListenerPayout rows, in creation order
    balance,      \* ListenerBalance row of the listener
    now,          \* server clock, minutes
    consumers,    \* CallConsumer instances (attachments) with their loaded copy
    allocReq,     \* allocation requests that passed their checks, per package
    acceptReq,    \* session of the accept_call request past its checks, or 0
    endReq,       \* end_call request that loaded the session, or NoReq
    emitted,      \* per session: number of group emissions per event type
    credits,      \* per package: how often the balance was credited for it
    extApplied,   \* per package: how often its minutes were added to a session
    accepted,     \* per session: Accept (accept_call or join_call) has occurred
    template,     \* the UniversalCallPackage row purchases are made from
    balReq,       \* per worker: the ListenerBalance instance it loaded, its call
    chat,         \* the conversation of t1 and the listener: block row, attached
                  \* ChatConsumers, stored messages, group sends, last request
    payoutReq     \* the listener's last withdrawal request: path, amount asked

vars == <<packages, sessions, payouts, balance, now, consumers, allocReq,
          acceptReq, endReq, emitted,
          credits, extApplied, accepted, template, balReq, chat,
          payoutReq>>

\* charge: stripe_charge_id is set.  rejection: the CallRejection row of the
\* purchase ("none", "open", or "refunded" once refund_issued is set).
\* refunds: the refunds Stripe created for the purchase's charge.
NoPackage == [status |-> "none", talker |-> "t1", is_extension |-> FALSE,
              call_session |-> 0, meta_session |-> 0,
              charge |-> FALSE, rejection |-> "none", refunds |-> 0,
              total_amount |-> 0, app_fee |-> 0, listener_amount |-> 0]

\* Money is counted in cents, app_fee_percentage in hundredths of a percent
\* (both fields have two decimal places).
Prices == 1..MaxPrice
FeePercentages == {0, 1, 1000, 2500, 3333, 5000, 7500, 9999, 10000}

\* The template as created by default (app_fee_percentage 10.00), priced so
\* that its listener amount is ListenerAmount.
DefaultTemplate == [price |-> 20, app_fee_percentage |-> 1000]

\* Decimal.quantize(Decimal('0.01')) of n / d cents in the default context
\* (ROUND_HALF_EVEN), n >= 0.
Quantize(n, d) ==
    LET q == n \div d
        r == n % d
    IN IF 2 * r < d THEN q
       ELSE IF 2 * r > d THEN q + 1
       ELSE IF q % 2 = 0 THEN q ELSE q + 1

\* The fee with the fraction of a cent dropped.
TemplateAppFeeTruncated(tpl) == (tpl.price * tpl.app_fee_percentage) \div 10000

\* UniversalCallPackage.app_fee.
TemplateAppFee(tpl) == Quantize(tpl.price * tpl.app_fee_percentage, 10000)

\* UniversalCallPackage.listener_amount.
TemplateListenerAmount(tpl) == tpl.price - TemplateAppFee(tpl)

\* The pricing snapshot CallPackage.objects.create(...) takes of the template.
WithAmounts(row, tpl) ==
    [row EXCEPT !.total_amount = tpl.price,
                !.app_fee = TemplateAppFee(tpl),
                !.listener_amount = TemplateListenerAmount(tpl)]

\* The talker of the conversation; t2 is a user outside it.
ChatTalker == "t1"
NoChatRequest == [op |-> "none", user |-> ChatTalker, blocked |-> FALSE,
                  answer |-> "none", stored |-> FALSE, sent |-> FALSE]
NoChat == [blocked |-> FALSE, attached |-> {}, messages |-> 0, group_sends |-> 0,
           last |-> NoChatRequest]

NoPayoutRequest == [path |-> "none", amount |-> 0]

Workers == 1..MaxWorkers
NoBalReq == [op |-> "none", amount |-> 0,
             copy |-> [available |-> 0, total_earned |-> 0]]
NoSession == [status |-> "none", talker |-> "t1", call_package |-> 0,
              total |-> 0, started_at |-> None, ended_at |-> None,
              minutes_used |-> 0, last_warning_sent |-> FALSE]
NoReq == [sid |-> 0, copy |-> NoSession]
NoCopy == [status |-> "none", total |-> 0, started_at |-> None,
           last_warning_sent |-> FALSE]
\* tick_at: when the timer task last reloaded the session (None: not yet).
NoConsumer == [pc |-> "closed", sid |-> 0, copy |-> NoCopy,
               last_status |-> "none", tick_at |-> None]
NoEmissions == [call_accepted |-> 0, time_warning |-> 0, time_update |-> 0,
                minutes_extended |-> 0, call_ending |-> 0, call_ended |-> 0]

Max(a, b) == IF a > b THEN a ELSE b

\* ------------------------------------------------------------ model rows

\* get_remaining_minutes without its not-started branch: the countdown runs
\* from a null started_at.
GetRemainingMinutesNoStartCheck(s) ==
    IF s.status \notin OpenStatuses THEN 0
    ELSE Max(0, s.total - (now - s.started_at))

\* CallSession.get_remaining_minutes, on an instance s (a row or a stale copy).
GetRemainingMinutes(s) ==
    IF s.started_at = None THEN s.total
    ELSE IF s.status \notin OpenStatuses THEN 0
    ELSE Max(0, s.total - (now - s.started_at))

\* CallSession.should_send_warning, on an instance s.
ShouldSendWarning(s) ==
    IF s.last_warning_sent \/ s.status # "active" THEN FALSE
    ELSE LET remaining == GetRemainingMinutes(s)
         IN 0 < remaining /\ remaining <= WarningThreshold

\* CallSession.is_listener_available: the Booking model is importable, so the
\* method returns from the `if Booking:` branch; no Booking rows exist here.
IsListenerAvailable ==
    ~ \E s \in SessIds : sessions[s].status \in OpenStatuses

\* CallSession.can_connect on an instance s.
CanConnect(s) ==
    IF s.status \in {"timeout", "ended"} THEN FALSE
    ELSE IF s.status \in OpenStatuses THEN TRUE
    ELSE IF s.call_package # 0
         THEN packages[s.call_package].status \in {"confirmed", "in_progress"}
         ELSE FALSE

\* ---------------------------------------------------------- balance rows

\* ListenerBalance.add_earnings.
AddEarnings(bal, amount) ==
    [available |-> bal.available + amount,
     total_earned |-> bal.total_earned + amount]

\* --------------------------------------------------- post_save receivers

PayoutsOf(pos, p) == {i \in 1..Len(pos) : pos[i].pkg = p}

\* chat.signals.create_listener_payout_on_payment_confirmation
CreateListenerPayoutOnConfirmation(pos, p, row, created, statusSaved) ==
    IF ~created /\ ~statusSaved THEN pos
    ELSE IF row.status = "confirmed" /\ PayoutsOf(pos, p) = {}
            /\ row.listener_amount > 0
         THEN Append(pos, [pkg |-> p, status |-> "processing",
                           is_extension |-> row.is_extension,
                           amount |-> row.listener_amount])
         ELSE pos

\* chat.signals.mark_payout_earned_on_call_completion: .first() of the
\* processing payouts of the package under ordering -earned_at (newest first).
MarkPayoutEarnedOnCallCompletion(pos, p, row, created, statusSaved) ==
    IF created \/ ~statusSaved \/ row.status # "completed" THEN pos
    ELSE LET proc == {i \in PayoutsOf(pos, p) : pos[i].status = "processing"}
         IN IF proc = {} THEN pos
            ELSE LET i == CHOOSE j \in proc : \A k \in proc : k <= j
                 IN [pos EXCEPT ![i].status = "earned"]

\* chat.signals.mark_payout_earned_on_call_session_end, for the saved instance
\* inst of session sid: initial_package, call_package, and every package whose
\* call_session points at the session.
MarkPayoutEarnedOnCallSessionEnd(pos, sid, inst, created, statusSaved) ==
    IF created \/ ~statusSaved \/ inst.status \notin {"timeout", "ended"} THEN pos
    ELSE [i \in 1..Len(pos) |->
            IF /\ pos[i].status = "processing"
               /\ \/ pos[i].pkg = inst.call_package
                  \/ packages[pos[i].pkg].call_session = sid
            THEN [pos[i] EXCEPT !.status = "earned"]
            ELSE pos[i]]

\* listener.signals.add_listener_earnings_on_call_end paying only for calls
\* on which minutes were used.
CreditsOnCallEndProRated(inst) ==
    /\ inst.status \in {"ended", "timeout"}
    /\ inst.call_package # 0
    /\ inst.minutes_used > 0
    /\ packages[inst.call_package].status
         \in {"confirmed", "used", "in_progress", "completed"}

\* listener.signals.add_listener_earnings_on_call_end: does the save of
\* instance inst credit the initial package?  The _base_earnings_processed
\* mark lives on the package object cached on this one session instance, and
\* no handler saves a terminal instance twice, so it never suppresses a credit.
CreditsOnCallEnd(inst) ==
    /\ inst.status \in {"ended", "timeout"}
    /\ inst.call_package # 0
    /\ packages[inst.call_package].status
         \in {"confirmed", "used", "in_progress", "completed"}

\* listener.signals.add_listener_earnings_on_extension, for a saved package
\* instance; processed is the instance's _extension_earnings_processed mark.
CreditsOnExtension(row, processed) ==
    /\ row.is_extension
    /\ row.status \in {"confirmed", "used"}
    /\ ~processed

\* All receivers of post_save(CallPackage) on the payout table.
PackagePostSavePayouts(pos, p, row, created, statusSaved) ==
    MarkPayoutEarnedOnCallCompletion(
        CreateListenerPayoutOnConfirmation(pos, p, row, created, statusSaved),
        p, row, created, statusSaved)

\* ------------------------------------------------------------- purchases

FreePkgId == CHOOSE p \in PkgIds :
                 /\ packages[p].status = "none"
                 /\ \A q \in PkgIds : packages[q].status = "none" => p <= q
FreeSessId == CHOOSE s \in SessIds :
                 /\ sessions[s].status = "none"
                 /\ \A q \in SessIds : sessions[q].status = "none" => s <= q

\* Talkers are interchangeable: the p-th purchase is made by the p-th talker.
BuyerOf(p) == IF p = 1 THEN "t1" ELSE "t2"

\* CallPackageViewSet.purchase_package, is_extension = false.  immediate: the
\* payment intent came back 'succeeded' (a payment method was supplied).
\* maxInitial caps the number of initial purchases of a run.
PurchasePackage(t, immediate, maxInitial) ==
    /\ \E p \in PkgIds : packages[p].status = "none"
    /\ Cardinality({p \in PkgIds : packages[p].status # "none"
                                   /\ ~packages[p].is_extension}) < maxInitial
    /\ t = BuyerOf(FreePkgId)
    /\ IsListenerAvailable
    /\ LET p == FreePkgId
           row == WithAmounts(
                      [NoPackage EXCEPT !.talker = t,
                          !.status = IF immediate THEN "confirmed" ELSE "pending"],
                      template)
       IN /\ packages' = [packages EXCEPT ![p] = row]
          /\ payouts' = IF immediate
                        THEN PackagePostSavePayouts(payouts, p, row, FALSE, TRUE)
                        ELSE payouts
    /\ UNCHANGED <<sessions, balance, now, consumers, allocReq, template, balReq, chat, payoutReq, acceptReq, endReq,
                   emitted, credits,
                   extApplied, accepted>>

\* User.objects.filter(user_type='listener', is_active=True).exclude(id=...)
\* filtered by is_listener_available: the free listeners other than the one
\* asked for.  There is one listener here, so there are no others.
FreeOtherListeners == <<>>

Take(seq, n) == SubSeq(seq, 1, IF Len(seq) < n THEN Len(seq) ELSE n)

\* The answer of purchase_package (is_extension false), given whether the
\* listener was free when PurchaseCallPackageSerializer.validate ran and when
\* the view tested it again.  validate raises for a busy listener, and the
\* view answers serializer.errors; the view's own busy branch, the one that
\* lists the free listeners, is reached only when validate found the listener
\* free.
PurchaseResponse(freeAtValidate, freeAtView) ==
    IF ~freeAtValidate
    THEN [code |-> 400, has_list |-> FALSE, available_listeners |-> <<>>]
    ELSE IF ~freeAtView
    THEN [code |-> 400, has_list |-> TRUE,
          available_listeners |-> Take(FreeOtherListeners, SuggestionLimit)]
    ELSE [code |-> 201, has_list |-> FALSE, available_listeners |-> <<>>]

\* purchase_package answering 400 for a busy listener (from the serializer's
\* validate, or from the view's busy branch): no row is created.
PurchaseRejected ==
    /\ ~IsListenerAvailable
    /\ UNCHANGED vars

\* CallSessionViewSet.extend_minutes: a pending extension package and a
\* checkout whose metadata names the package and the session.
ExtendMinutes(s, user) ==
    /\ \E p \in PkgIds : packages[p].status = "none"
    /\ sessions[s].status \in OpenStatuses
    /\ user = sessions[s].talker
    /\ packages' = [packages EXCEPT ![FreePkgId] =
                       WithAmounts(
                           [NoPackage EXCEPT !.talker = user, !.status = "pending",
                                             !.is_extension = TRUE,
                                             !.meta_session = s],
                           template)]
    /\ UNCHANGED <<sessions, payouts, balance, now, consumers, allocReq, template, balReq, chat, payoutReq, acceptReq,
                   endReq, emitted, credits,
                   extApplied, accepted>>

\* ---------------------------------------------------------------- webhooks

\* The body shared by the initial branch of _handle_checkout_completed and by
\* _handle_payment_succeeded: get the package, set 'confirmed', save().
ConfirmCallPackage(p) ==
    /\ packages[p].status # "none"
    /\ ~packages[p].is_extension
    /\ LET row == [packages[p] EXCEPT !.status = "confirmed"]
       IN /\ packages' = [packages EXCEPT ![p] = row]
          /\ payouts' = PackagePostSavePayouts(payouts, p, row, FALSE, TRUE)
    /\ UNCHANGED <<sessions, balance, now, consumers, allocReq, template, balReq, chat, payoutReq, acceptReq, endReq,
                   emitted, credits, extApplied, accepted>>

\* StripeWebhookView._handle_checkout_completed, initial purchase branch.
WebhookCheckoutInitial(p) == ConfirmCallPackage(p)

\* StripeWebhookView._handle_payment_succeeded, call package branch: as
\* above, and stripe_charge_id is set from the intent's latest_charge.
WebhookPaymentSucceeded(p) ==
    /\ packages[p].status # "none"
    /\ ~packages[p].is_extension
    /\ LET row == [packages[p] EXCEPT !.status = "confirmed", !.charge = TRUE]
       IN /\ packages' = [packages EXCEPT ![p] = row]
          /\ payouts' = PackagePostSavePayouts(payouts, p, row, FALSE, TRUE)
    /\ UNCHANGED <<sessions, balance, now, consumers, allocReq, template, balReq, chat, payoutReq, acceptReq, endReq,
                   emitted, credits, extApplied, accepted>>

\* StripeWebhookView._handle_payment_failed, call package branch: get the
\* package named by the intent's metadata, set 'cancelled', save(); no test of
\* the status the package has.
WebhookPaymentFailed(p) ==
    /\ packages[p].status # "none"
    /\ LET row == [packages[p] EXCEPT !.status = "cancelled"]
       IN /\ packages' = [packages EXCEPT ![p] = row]
          /\ payouts' = PackagePostSavePayouts(payouts, p, row, FALSE, TRUE)
    /\ UNCHANGED <<sessions, balance, now, consumers, allocReq, template, balReq, chat, payoutReq, acceptReq, endReq,
                   emitted, credits, extApplied, accepted>>

\* The minutes_extended event the extension branch publishes for the refreshed
\* session row.
MinutesExtendedEvent(row) ==
    [new_total_minutes |-> row.total,
     remaining_minutes |-> GetRemainingMinutes(row)]

\* StripeWebhookView._handle_checkout_completed, extension branch: one
\* transaction holding the row locks of the package and the session.
WebhookCheckoutExtension(p) ==
    /\ packages[p].status # "none"
    /\ packages[p].is_extension
    /\ extApplied[p] < MaxDeliveries
    /\ LET s == packages[p].meta_session
           confirmedRow == [packages[p] EXCEPT !.status = "confirmed"]
           usedRow == [packages[p] EXCEPT !.status = "used"]
           \* save #1 of the package (status 'confirmed'): payout receiver
           po1 == PackagePostSavePayouts(payouts, p, confirmedRow, FALSE, TRUE)
           \* ... and the extension-earnings receiver, which marks the instance
           ext == CreditsOnExtension(confirmedRow, FALSE)
           \* save of the session (update_fields total_minutes_purchased)
           sessRow == [sessions[s] EXCEPT !.total = @ + DurationMinutes]
           po2 == MarkPayoutEarnedOnCallSessionEnd(po1, s, sessRow, FALSE, FALSE)
           base == CreditsOnCallEnd(sessRow)
           \* ListenerPayout.objects.create(...), is_extension left at its default
           po3 == Append(po2, [pkg |-> p, status |-> "processing",
                               is_extension |-> FALSE,
                               amount |-> packages[p].listener_amount])
           \* save #2 of the package (status 'used')
           po4 == PackagePostSavePayouts(po3, p, usedRow, FALSE, TRUE)
           ext2 == CreditsOnExtension(usedRow, ext)
           nCredits == (IF ext THEN 1 ELSE 0) + (IF ext2 THEN 1 ELSE 0)
       IN /\ packages' = [packages EXCEPT ![p] = usedRow]
          /\ sessions' = [sessions EXCEPT ![s] = sessRow]
          /\ payouts' = po4
          /\ balance' = AddEarnings(balance,
                            ListenerAmount * (nCredits + IF base THEN 1 ELSE 0))
          /\ credits' = [q \in PkgIds |->
                            credits[q] + (IF q = p THEN nCredits ELSE 0)
                                       + (IF base /\ q = sessRow.call_package
                                          THEN 1 ELSE 0)]
          /\ extApplied' = [extApplied EXCEPT ![p] = @ + 1]
          /\ emitted' = [emitted EXCEPT ![s].minutes_extended = @ + 1]
    /\ UNCHANGED <<now, consumers, allocReq, template, balReq, chat, payoutReq, acceptReq, endReq, accepted>>

\* -------------------------------------------------------------- allocation

Endpoints == {"call_sessions", "agora_calls"}

\* No CallSession row references package p through call_package (one-to-one).
NoSessionFor(p) == \A s \in SessIds : sessions[s].call_package # p

\* The checks of CallSessionViewSet.initiate_from_package (ep = call_sessions)
\* and of AgoraCallViewSet.start_call (ep = agora_calls), up to the point where
\* the transaction that inserts the session begins.  Session rows are never
\* deleted, so a request that passes the checks while a row for p exists can
\* only fail on the unique constraint: it is not tracked.
AllocCheck(p, user, ep) ==
    /\ ep \notin allocReq[p]
    /\ packages[p].status = "confirmed"
    /\ IF ep = "call_sessions"
       THEN /\ user \in {packages[p].talker, Listener}
            /\ IsListenerAvailable
            /\ NoSessionFor(p)
       ELSE /\ user = packages[p].talker
            /\ IsListenerAvailable
            /\ ~ \E s \in SessIds : /\ sessions[s].call_package = p
                                    /\ sessions[s].status \in OpenStatuses
    /\ allocReq' = IF NoSessionFor(p)
                   THEN [allocReq EXCEPT ![p] = @ \cup {ep}]
                   ELSE allocReq
    /\ UNCHANGED <<packages, sessions, payouts, balance, now, consumers, acceptReq, template, balReq, chat, payoutReq,
                   endReq, emitted, credits,
                   extApplied, accepted>>

\* The insert without the one-to-one constraint on call_package: every
\* request that passed the checks gets its row.
AllocInsertNoUnique(p, ep) ==
    /\ ep \in allocReq[p]
    /\ allocReq' = [allocReq EXCEPT ![p] = @ \ {ep}]
    /\ \E s \in SessIds : sessions[s].status = "none"
    /\ sessions' = [sessions EXCEPT ![FreeSessId] =
                       [NoSession EXCEPT !.status = "connecting",
                                         !.talker = packages[p].talker,
                                         !.call_package = p,
                                         !.total = DurationMinutes]]
    /\ packages' = IF ep = "agora_calls"
                   THEN [packages EXCEPT ![p].status = "in_progress"]
                   ELSE packages
    /\ UNCHANGED <<payouts, balance, now, consumers, acceptReq, template, balReq, chat, payoutReq, endReq,
                   emitted, credits, extApplied, accepted>>

\* The transaction of the same two views: CallSession.objects.create(...); the
\* unique constraint of call_package makes a second insert for the same package
\* fail (500, rolled back): once the row exists the other requests in flight
\* for p are dropped.  start_call also sets the package in_progress.
AllocInsert(p, ep) ==
    /\ ep \in allocReq[p]
    /\ allocReq' = [allocReq EXCEPT ![p] = {}]
    /\ IF NoSessionFor(p)
       THEN /\ \E s \in SessIds : sessions[s].status = "none"
            /\ sessions' = [sessions EXCEPT ![FreeSessId] =
                               [NoSession EXCEPT !.status = "connecting",
                                                 !.talker = packages[p].talker,
                                                 !.call_package = p,
                                                 !.total = DurationMinutes]]
            /\ packages' = IF ep = "agora_calls"
                           THEN [packages EXCEPT ![p].status = "in_progress"]
                           ELSE packages
       ELSE UNCHANGED <<sessions, packages>>
    /\ UNCHANGED <<payouts, balance, now, consumers, acceptReq, template, balReq, chat, payoutReq, endReq,
                   emitted, credits, extApplied, accepted>>

\* CallPackageViewSet.initiate_from_package called with the id of a template
\* (no confirmed purchase of the caller has that id): the view creates the
\* purchase itself, already confirmed and with no payment, then tests the
\* listener and creates the session.  A busy listener leaves the purchase
\* behind (it is created outside the transaction).
InitiateFromTemplate(t) ==
    /\ \E p \in PkgIds : packages[p].status = "none"
    /\ t = BuyerOf(FreePkgId)
    /\ IsListenerAvailable => \E s \in SessIds : sessions[s].status = "none"
    /\ LET p == FreePkgId
           row == WithAmounts(
                      [NoPackage EXCEPT !.talker = t, !.status = "confirmed"],
                      template)
       IN /\ packages' = [packages EXCEPT ![p] = row]
          /\ payouts' = PackagePostSavePayouts(payouts, p, row, TRUE, TRUE)
          /\ sessions' = IF IsListenerAvailable
                         THEN [sessions EXCEPT ![FreeSessId] =
                                  [NoSession EXCEPT !.status = "connecting",
                                                    !.talker = t,
                                                    !.call_package = p,
                                                    !.total = DurationMinutes]]
                         ELSE sessions
    /\ UNCHANGED <<balance, now, consumers, allocReq, template, balReq, chat, payoutReq, acceptReq, endReq,
                   emitted, credits, extApplied, accepted>>

\* ------------------------------------------------------------------ accept

\* CallSessionViewSet.send_call_accepted_notification: building the event
\* calls call_session.get_total_minutes(), which CallSession does not define;
\* the AttributeError is caught and logged, and nothing is published.
ViewCallAcceptedEmissions == 0

\* accept_call up to its checks: load the session, 403 / 400 otherwise.
AcceptLoad(s, user) ==
    /\ acceptReq = 0
    /\ sessions[s].status # "none"
    /\ user = Listener
    /\ sessions[s].status = "connecting"
    /\ acceptReq' = s
    /\ UNCHANGED <<packages, sessions, payouts, balance, now, consumers, allocReq, template, balReq, chat, payoutReq,
                   endReq, emitted, credits,
                   extApplied, accepted>>

\* accept_call answered 403 (not the listener) or 400 (not connecting).
AcceptRejected(s, user) ==
    /\ sessions[s].status # "none"
    /\ user # Listener \/ sessions[s].status # "connecting"
    /\ UNCHANGED vars

\* accept_call from its save on: save(update_fields=[status, started_at]),
\* the loop over pending packages of the session (none point at a session
\* here), the notification.
AcceptSave ==
    /\ acceptReq # 0
    /\ LET s == acceptReq
       IN /\ sessions' = [sessions EXCEPT ![s].status = "active",
                                          ![s].started_at = now]
          /\ emitted' = [emitted EXCEPT ![s].call_accepted =
                                            @ + ViewCallAcceptedEmissions]
          /\ accepted' = [accepted EXCEPT ![s] = TRUE]
    /\ acceptReq' = 0
    /\ UNCHANGED <<packages, payouts, balance, now, consumers, allocReq, template, balReq, chat, payoutReq, endReq,
                   credits, extApplied>>

\* AgoraCallViewSet.join_call by the listener: validate_call_requirements,
\* then connecting -> active with a full save; nothing is published.
JoinCall(s, user) ==
    /\ sessions[s].status # "none"
    /\ user = Listener
    /\ CanConnect(sessions[s])
    /\ sessions[s].status \notin TerminalStatuses
    /\ IF sessions[s].status = "connecting"
       THEN /\ sessions' = [sessions EXCEPT ![s].status = "active",
                                            ![s].started_at = now]
            /\ accepted' = [accepted EXCEPT ![s] = TRUE]
       ELSE UNCHANGED <<sessions, accepted>>
    /\ UNCHANGED <<packages, payouts, balance, now, consumers, allocReq, template, balReq, chat, payoutReq, acceptReq,
                   endReq, emitted, credits,
                   extApplied>>

\* ---------------------------------------------------------------- end call

\* The effect of saving session instance inst (status written) on the store:
\* the row, and the receivers of post_save(CallSession).
SaveTerminal(s, inst) ==
    /\ sessions' = [sessions EXCEPT ![s] = inst]
    /\ LET credit == CreditsOnCallEnd(inst)
       IN /\ balance' = IF credit THEN AddEarnings(balance, ListenerAmount)
                        ELSE balance
          /\ credits' = IF credit
                        THEN [credits EXCEPT ![inst.call_package] = @ + 1]
                        ELSE credits

\* end_call up to its checks: load the session; participant, status open.
EndLoad(s, user) ==
    /\ endReq = NoReq
    /\ sessions[s].status # "none"
    /\ user \in {sessions[s].talker, Listener}
    /\ sessions[s].status \in {"connecting", "in_progress", "active"}
    /\ endReq' = [sid |-> s, copy |-> sessions[s]]
    /\ UNCHANGED <<packages, sessions, payouts, balance, now, consumers, allocReq, template, balReq, chat, payoutReq,
                   acceptReq, emitted, credits, extApplied, accepted>>

\* end_call answered 403 (not a participant) or 400 (the call is not
\* connecting, in_progress or active): nothing is written or published.
EndRejected(s, user) ==
    /\ sessions[s].status # "none"
    /\ \/ user \notin {sessions[s].talker, Listener}
       \/ sessions[s].status \notin {"connecting", "in_progress", "active"}
    /\ UNCHANGED vars

\* end_call from the duration computation on: a full save() of the loaded
\* instance, then call_ended to the call group.
EndSave ==
    /\ endReq # NoReq
    /\ LET s == endReq.sid
           c == endReq.copy
           inst == [c EXCEPT !.status = "ended", !.ended_at = now,
                             !.minutes_used = IF c.started_at # None
                                              THEN now - c.started_at ELSE @]
       IN /\ SaveTerminal(s, inst)
          /\ payouts' = MarkPayoutEarnedOnCallSessionEnd(payouts, s, inst, FALSE, TRUE)
          /\ emitted' = [emitted EXCEPT ![s].call_ended = @ + 1]
    /\ endReq' = NoReq
    /\ UNCHANGED <<packages, now, consumers, allocReq, template, balReq, chat, payoutReq, acceptReq,
                   extApplied, accepted>>

\* ----------------------------------------------------------- CallConsumer

\* The fields of its CallSession instance a consumer reads or writes back
\* with values of its own; ended_at and minutes_used are overwritten by the
\* only full save a consumer makes, talker and call_package never change.
CopyOf(row) == [status |-> row.status, total |-> row.total,
                started_at |-> row.started_at,
                last_warning_sent |-> row.last_warning_sent]

\* CallConsumer.send_call_status: the call_status frame built from the
\* consumer's instance cs.
SendCallStatus(cs) ==
    LET call_accepted == cs.started_at # None
    IN [status |-> cs.status,
        remaining_minutes |-> IF ~call_accepted THEN cs.total
                              ELSE GetRemainingMinutes(cs),
        total_minutes |-> cs.total,
        accepted |-> call_accepted,
        timer_running |-> call_accepted /\ cs.status = "active"]

\* CallSession.consume_booking via CallConsumer.consume_booking_after_call on
\* an instance of status st with package p: CallPackage.complete_call() when
\* the instance is ended, timeout or active; the package rows ...
ConsumeBookingPackages(pk, st, p) ==
    IF st \in {"ended", "timeout", "active"} /\ p # 0
    THEN [pk EXCEPT ![p].status = "completed"]
    ELSE pk

\* ... and the payout rows after the post_save receivers of that save.
ConsumeBookingPayouts(pos, st, p) ==
    IF st \in {"ended", "timeout", "active"} /\ p # 0
    THEN MarkPayoutEarnedOnCallCompletion(pos, p,
             [packages[p] EXCEPT !.status = "completed"], FALSE, TRUE)
    ELSE pos

\* CallConsumer.connect for the attachment c of a participant of session s;
\* the welcome frame is SendCallStatus of the instance just loaded.
Connect(c, s) ==
    /\ consumers[c].pc = "closed"
    /\ sessions[s].status # "none"
    /\ sessions[s].status \notin {"ended", "timeout", "completed", "cancelled"}
    /\ CanConnect(sessions[s])
    /\ consumers' = [consumers EXCEPT ![c] =
                        [pc |-> "sleep", sid |-> s, copy |-> CopyOf(sessions[s]),
                         last_status |-> sessions[s].status,
                         tick_at |-> None]]
    /\ UNCHANGED <<packages, sessions, payouts, balance, now, allocReq, template, balReq, chat, payoutReq, acceptReq,
                   endReq, emitted, credits, extApplied, accepted>>

\* CallConsumer.connect closing with 4010 (status in its terminal list), 4003
\* (user is not a participant) or 4402 (can_connect false): no group, no timer
\* task.  The close runs disconnect, whose consume_booking_after_call acts on
\* the instance connect loaded.
ConnectRejected(s, user) ==
    /\ sessions[s].status # "none"
    /\ \/ sessions[s].status \in {"ended", "timeout", "completed", "cancelled"}
       \/ user \notin {sessions[s].talker, Listener}
       \/ ~CanConnect(sessions[s])
    /\ packages' = ConsumeBookingPackages(packages, sessions[s].status,
                                          sessions[s].call_package)
    /\ payouts' = ConsumeBookingPayouts(payouts, sessions[s].status,
                                        sessions[s].call_package)
    /\ UNCHANGED <<sessions, balance, now, consumers, allocReq, template, balReq, chat, payoutReq, acceptReq, endReq,
                   emitted, credits, extApplied, accepted>>

\* disconnect with a maybe_end_call that ends the call when a participant
\* leaves, instead of the empty body it has.
DisconnectEndingCall(c) ==
    /\ consumers[c].pc # "closed"
    /\ LET st == consumers[c].copy.status
           p == sessions[consumers[c].sid].call_package
       IN /\ packages' = ConsumeBookingPackages(packages, st, p)
          /\ payouts' = ConsumeBookingPayouts(payouts, st, p)
    /\ consumers' = [consumers EXCEPT ![c] = NoConsumer]
    /\ sessions' = [sessions EXCEPT ![consumers[c].sid].status = "ended",
                                    ![consumers[c].sid].ended_at = now]
    /\ UNCHANGED <<balance, now, allocReq, template, balReq, chat, payoutReq, acceptReq, endReq,
                   emitted, credits, extApplied, accepted>>

\* CallConsumer.disconnect: cancel the timer task, leave the group,
\* consume_booking_after_call on the instance the consumer holds.
Disconnect(c) ==
    /\ consumers[c].pc # "closed"
    /\ LET st == consumers[c].copy.status
           p == sessions[consumers[c].sid].call_package
       IN /\ packages' = ConsumeBookingPackages(packages, st, p)
          /\ payouts' = ConsumeBookingPayouts(payouts, st, p)
    /\ consumers' = [consumers EXCEPT ![c] = NoConsumer]
    /\ UNCHANGED <<sessions, balance, now, allocReq, template, balReq, chat, payoutReq, acceptReq, endReq,
                   emitted, credits, extApplied, accepted>>

\* CallConsumer.receive, type get_status: the frame SendCallStatus builds from
\* the instance the consumer holds goes to the client; no state changes.
GetStatus(c) ==
    /\ consumers[c].pc # "closed"
    /\ UNCHANGED vars

\* Does monitor_call_time go on to the countdown with instance cs?
TickCountsDown(cs) == cs.started_at # None /\ cs.status = "active"

\* monitor_call_time, one pass up to its first write: wake from sleep(2),
\* reload the session (rows are never deleted, so the reload finds it), publish
\* call_accepted on connecting -> active, update last_status, decide.  A pass
\* that neither expires the call nor warns ends here.
TickLoad(c) ==
    /\ consumers[c].pc = "sleep"
    /\ LET s == consumers[c].sid
           cs == CopyOf(sessions[s])
           nAccepted == IF consumers[c].last_status = "connecting"
                           /\ cs.status = "active" THEN 1 ELSE 0
           pc == IF ~TickCountsDown(cs) THEN "sleep"
                 ELSE IF GetRemainingMinutes(cs) <= 0 THEN "expiring"
                 ELSE IF /\ GetRemainingMinutes(cs) <= WarningThreshold
                         /\ ShouldSendWarning(cs) THEN "warning"
                 ELSE "sleep"
       IN /\ consumers' = [consumers EXCEPT ![c].pc = pc, ![c].copy = cs,
                                            ![c].last_status = cs.status,
                                            ![c].tick_at = now]
          /\ emitted' = [emitted EXCEPT ![s].call_accepted = @ + nAccepted]
    /\ UNCHANGED <<packages, sessions, payouts, balance, now, allocReq, template, balReq, chat, payoutReq, acceptReq,
                   endReq, credits, extApplied, accepted>>

\* end_call_time_expired by consumer c holding instance cs of session s:
\* update_session_status('timeout') (full save), consume_booking_after_call,
\* call_ending to the group, close; the close runs disconnect, which consumes
\* the booking once more.
EndCallTimeExpired(c, s, cs) ==
    LET inst == [sessions[s] EXCEPT !.status = "timeout", !.total = cs.total,
                     !.started_at = cs.started_at,
                     !.last_warning_sent = cs.last_warning_sent,
                     !.ended_at = now,
                     !.minutes_used = IF cs.started_at # None
                                      THEN now - cs.started_at ELSE @]
        p == inst.call_package
        po1 == MarkPayoutEarnedOnCallSessionEnd(payouts, s, inst, FALSE, TRUE)
        po2 == ConsumeBookingPayouts(po1, "timeout", p)
        po3 == ConsumeBookingPayouts(po2, "timeout", p)
    IN /\ SaveTerminal(s, inst)
       /\ payouts' = po3
       /\ packages' = ConsumeBookingPackages(packages, "timeout", p)
       /\ emitted' = [emitted EXCEPT ![s].call_ending = @ + 1]
       /\ consumers' = [consumers EXCEPT ![c] = NoConsumer]

\* send_time_warning and mark_warning_sent by consumer c.
SendTimeWarning(c, s) ==
    /\ emitted' = [emitted EXCEPT ![s].time_warning = @ + 1]
    /\ sessions' = [sessions EXCEPT ![s].last_warning_sent = TRUE]
    /\ consumers' = [consumers EXCEPT ![c].pc = "sleep",
                                      ![c].copy.last_warning_sent = TRUE]
    /\ UNCHANGED <<packages, payouts, balance, credits>>

\* monitor_call_time: the rest of a pass that expires the call or warns.
TickAct(c) ==
    /\ consumers[c].pc \in {"expiring", "warning"}
    /\ IF consumers[c].pc = "expiring"
       THEN EndCallTimeExpired(c, consumers[c].sid, consumers[c].copy)
       ELSE SendTimeWarning(c, consumers[c].sid)
    /\ UNCHANGED <<now, allocReq, template, balReq, chat, payoutReq, acceptReq, endReq, extApplied, accepted>>

\* --------------------------------------------------------------------- chat

\* ListenerBlockedTalker.objects.filter(listener=conversation.listener,
\* talker=conversation.talker).exists()
IsBlocked == chat.blocked

\* The listener blocks (get_or_create) or unblocks (delete) the talker.
SetBlocked(b) ==
    /\ chat.blocked # b
    /\ chat' = [chat EXCEPT !.blocked = b]
    /\ UNCHANGED <<packages, sessions, payouts, balance, now, consumers, allocReq,
                   acceptReq, endReq, emitted, credits, extApplied, accepted,
                   template, balReq, payoutReq>>

\* ChatConsumer.get_conversation for user u: None when the listener has
\* blocked the talker or u is not a participant.
GetConversation(u) == ~IsBlocked /\ u \in {ChatTalker, Listener}

\* ChatConsumer.connect by an authenticated user u who is not attached:
\* close(4004) when get_conversation returns None, else group_add, accept and
\* the connection_established frame.
ChatConnect(u) ==
    /\ u \notin chat.attached
    /\ chat' = [chat EXCEPT
                   !.attached = IF GetConversation(u) THEN @ \cup {u} ELSE @,
                   !.last = [op |-> "connect", user |-> u, blocked |-> IsBlocked,
                             answer |-> IF GetConversation(u)
                                        THEN "connection_established"
                                        ELSE "close_4004",
                             stored |-> FALSE, sent |-> FALSE]]
    /\ UNCHANGED <<packages, sessions, payouts, balance, now, consumers, allocReq,
                   acceptReq, endReq, emitted, credits, extApplied, accepted,
                   template, balReq, payoutReq>>

\* ChatConsumer.disconnect.
ChatDisconnect(u) ==
    /\ u \in chat.attached
    /\ chat' = [chat EXCEPT !.attached = @ \ {u},
                            !.last = [NoChatRequest EXCEPT !.op = "disconnect",
                                                           !.user = u]]
    /\ UNCHANGED <<packages, sessions, payouts, balance, now, consumers, allocReq,
                   acceptReq, endReq, emitted, credits, extApplied, accepted,
                   template, balReq, payoutReq>>

\* ChatConsumer.receive of a chat_message or file_message frame (with its
\* content) from attached user u: save_message / save_file_message raises
\* PermissionError under a block, which receive answers with an error frame
\* carrying the exception's text; otherwise the Message row is created and
\* the message is sent to the conversation group.
ChatReceive(u, kind) ==
    /\ u \in chat.attached
    /\ chat.messages < MaxMessages
    /\ chat' = IF IsBlocked
               THEN [chat EXCEPT
                        !.last = [op |-> kind, user |-> u, blocked |-> TRUE,
                                  answer |-> "error: Messaging is blocked",
                                  stored |-> FALSE, sent |-> FALSE]]
               ELSE [chat EXCEPT
                        !.messages = @ + 1,
                        !.group_sends = @ + 1,
                        !.last = [op |-> kind, user |-> u, blocked |-> FALSE,
                                  answer |-> "new_message",
                                  stored |-> TRUE, sent |-> TRUE]]
    /\ UNCHANGED <<packages, sessions, payouts, balance, now, consumers, allocReq,
                   acceptReq, endReq, emitted, credits, extApplied, accepted,
                   template, balReq, payoutReq>>

\* ------------------------------------------------------------ withdrawals

\* The payout rows of the listener in status st, oldest first.
PayoutsIn(st) == {i \in 1..Len(payouts) : payouts[i].status = st}

\* The k oldest rows of a set of payout rows.
Oldest(rows, k) == {i \in rows : Cardinality({j \in rows : j < i}) < k}

SetPayouts(rows, st) ==
    [i \in 1..Len(payouts) |->
        IF i \in rows THEN [payouts[i] EXCEPT !.status = st] ELSE payouts[i]]

\* ListenerPayoutViewSet.create_payout_link for an amount that the k oldest
\* earned rows make up exactly (no row is split), asked for while no other
\* link is outstanding: those rows become pending.
CreatePayoutLink(k) ==
    /\ PayoutsIn("pending") = {}
    /\ k \in 1..Cardinality(PayoutsIn("earned"))
    /\ payouts' = SetPayouts(Oldest(PayoutsIn("earned"), k), "pending")
    /\ UNCHANGED <<packages, sessions, balance, now, consumers, allocReq,
                   acceptReq, endReq, emitted, credits, extApplied, accepted,
                   template, balReq, chat, payoutReq>>

\* StripeWebhookView._handle_checkout_completed, type payout_collection: the
\* pending rows that carry the link's session id become completed.
PayoutCollection ==
    /\ PayoutsIn("pending") # {}
    /\ payouts' = SetPayouts(PayoutsIn("pending"), "completed")
    /\ UNCHANGED <<packages, sessions, balance, now, consumers, allocReq,
                   acceptReq, endReq, emitted, credits, extApplied, accepted,
                   template, balReq, chat, payoutReq>>

\* ListenerPayoutViewSet.process_payout: a Stripe payout for the pending rows,
\* which are updated to processing.
ProcessPayout ==
    /\ PayoutsIn("pending") # {}
    /\ payouts' = SetPayouts(PayoutsIn("pending"), "processing")
    /\ UNCHANGED <<packages, sessions, balance, now, consumers, allocReq,
                   acceptReq, endReq, emitted, credits, extApplied, accepted,
                   template, balReq, chat, payoutReq>>

\* ListenerPayoutViewSet.request_payout and request_payout_simple, the
\* transfer accepted by Stripe: the k oldest earned rows become completed.
RequestPayout(k) ==
    /\ k \in 1..Cardinality(PayoutsIn("earned"))
    /\ payouts' = SetPayouts(Oldest(PayoutsIn("earned"), k), "completed")
    /\ UNCHANGED <<packages, sessions, balance, now, consumers, allocReq,
                   acceptReq, endReq, emitted, credits, extApplied, accepted,
                   template, balReq, chat, payoutReq>>

\* ------------------------------------------- withdrawals of a given amount

RECURSIVE SumAmounts(_, _)
\* Sum('amount') over the rows `rows` of the payout table pos.
SumAmounts(pos, rows) ==
    IF rows = {} THEN 0
    ELSE LET i == CHOOSE j \in rows : TRUE
         IN pos[i].amount + SumAmounts(pos, rows \ {i})

\* The rows of a set in order_by('earned_at') order (creation order here).
InOrder(rows) ==
    [k \in 1..Cardinality(rows) |->
        CHOOSE i \in rows : Cardinality({j \in rows : j < i}) = k - 1]

RECURSIVE Fulfil(_, _, _)
\* The loop over payouts_to_process from position k with `remaining` left:
\* the rows it takes, and the row that is larger than what remains (0 if
\* none) with the part of it that was asked for.
Fulfil(seq, k, remaining) ==
    IF k > Len(seq) \/ remaining <= 0
    THEN [taken |-> {}, partial |-> 0, part |-> 0]
    ELSE IF payouts[seq[k]].amount <= remaining
    THEN LET rest == Fulfil(seq, k + 1, remaining - payouts[seq[k]].amount)
         IN [rest EXCEPT !.taken = @ \cup {seq[k]}]
    ELSE [taken |-> {seq[k]}, partial |-> seq[k], part |-> remaining]

\* request_payout (instant transfer) and request_payout_simple (bank
\* transfer) for amount a, within the earned total and positive, the transfer
\* of a accepted by Stripe: every row the loop took becomes completed, the one
\* larger than what remained included ("for now process full").
RequestPayoutAmount(path, a) ==
    /\ a <= SumAmounts(payouts, PayoutsIn("earned"))
    /\ a > 0
    /\ LET f == Fulfil(InOrder(PayoutsIn("earned")), 1, a)
       IN payouts' = SetPayouts(f.taken, "completed")
    /\ payoutReq' = [path |-> path, amount |-> a]
    /\ UNCHANGED <<packages, sessions, balance, now, consumers, allocReq,
                   acceptReq, endReq, emitted, credits, extApplied, accepted,
                   template, balReq, chat>>

\* create_payout_link for amount a: the rows the loop took become pending; a
\* row larger than what remained is cut down to the part asked for, and a
\* new earned row holds the rest of it.
CreatePayoutLinkAmount(a) ==
    /\ a <= SumAmounts(payouts, PayoutsIn("earned"))
    /\ a > 0
    /\ LET f == Fulfil(InOrder(PayoutsIn("earned")), 1, a)
           marked == SetPayouts(f.taken, "pending")
       IN IF f.partial = 0
          THEN payouts' = marked
          ELSE /\ Len(payouts) < MaxPayoutRows
               /\ payouts' = Append(
                      [marked EXCEPT ![f.partial].amount = f.part],
                      [payouts[f.partial] EXCEPT
                          !.status = "earned",
                          !.amount = payouts[f.partial].amount - f.part])
    /\ payoutReq' = [path |-> "payout_link", amount |-> a]
    /\ UNCHANGED <<packages, sessions, balance, now, consumers, allocReq,
                   acceptReq, endReq, emitted, credits, extApplied, accepted,
                   template, balReq, chat>>

\* ------------------------------------------------- balance, call by call

\* A caller of add_earnings (a post_save receiver of listener/signals.py)
\* running in worker w: ListenerBalance.objects.get_or_create(...) loads the
\* row into an instance.  Amounts are payout amounts, at least one cent.
CreditLoad(w, x) ==
    /\ balReq[w].op = "none"
    /\ balance.total_earned + x <= MaxEarned
    /\ balReq' = [balReq EXCEPT ![w] = [op |-> "credit", amount |-> x,
                                         copy |-> balance]]
    /\ UNCHANGED <<packages, sessions, payouts, balance, now, consumers, allocReq,
                   acceptReq, endReq, emitted, credits, extApplied, accepted,
                   template, chat, payoutReq>>

\* ListenerBalance.add_earnings on the loaded instance: both fields are
\* computed from the instance and saved (update_fields names both).
CreditSave(w) ==
    /\ balReq[w].op = "credit"
    /\ balance' = AddEarnings(balReq[w].copy, balReq[w].amount)
    /\ balReq' = [balReq EXCEPT ![w] = NoBalReq]
    /\ UNCHANGED <<packages, sessions, payouts, now, consumers, allocReq,
                   acceptReq, endReq, emitted, credits, extApplied, accepted,
                   template, chat, payoutReq>>

\* A caller of deduct in worker w loads the row.
DeductLoad(w, x) ==
    /\ balReq[w].op = "none"
    /\ balReq' = [balReq EXCEPT ![w] = [op |-> "debit", amount |-> x,
                                         copy |-> balance]]
    /\ UNCHANGED <<packages, sessions, payouts, balance, now, consumers, allocReq,
                   acceptReq, endReq, emitted, credits, extApplied, accepted,
                   template, chat, payoutReq>>

\* The value ListenerBalance.deduct returns for instance inst and amount x.
DeductReturns(inst, x) == inst.available >= x

\* ListenerBalance.deduct on the loaded instance: when the instance covers
\* the amount, available_balance alone is saved (update_fields); otherwise
\* nothing is saved.
DeductSave(w) ==
    /\ balReq[w].op = "debit"
    /\ balance' = IF DeductReturns(balReq[w].copy, balReq[w].amount)
                  THEN [balance EXCEPT
                           !.available = balReq[w].copy.available - balReq[w].amount]
                  ELSE balance
    /\ balReq' = [balReq EXCEPT ![w] = NoBalReq]
    /\ UNCHANGED <<packages, sessions, payouts, now, consumers, allocReq,
                   acceptReq, endReq, emitted, credits, extApplied, accepted,
                   template, chat, payoutReq>>

\* ---------------------------------------------------------------- template

\* The admin edits the template's price and commission (validated by the
\* model's validators: price >= 0.01, 0 <= app_fee_percentage <= 100).
EditTemplate(price, pct) ==
    /\ template # [price |-> price, app_fee_percentage |-> pct]
    /\ template' = [price |-> price, app_fee_percentage |-> pct]
    /\ UNCHANGED <<packages, sessions, payouts, balance, now, consumers, allocReq,
                   acceptReq, endReq, emitted, credits, extApplied, accepted,
                   balReq, chat, payoutReq>>

\* ---------------------------------------------------- rejection and refund

\* Stripe holds a charge for the purchase's payment intent: the purchase was
\* paid (no payment is taken back except by a refund).
Paid(row) ==
    row.status \in {"confirmed", "in_progress", "completed", "used", "refunded"}

\* ListenerPayout.objects.filter(call_package=p).update(status='cancelled'):
\* a queryset update, no signal.
CancelPayouts(pos, p) ==
    [i \in 1..Len(pos) |->
        IF pos[i].pkg = p THEN [pos[i] EXCEPT !.status = "cancelled"] ELSE pos[i]]

\* CallRejectionViewSet.reject_call by the purchase's listener, no rejection
\* row yet: create the row; with a stored charge id refund it at Stripe (which
\* refuses a second refund of a charge: 400, the row stays), mark the row
\* refund_issued and the purchase refunded; then cancel the purchase's
\* payouts.  The purchase's status is not tested and no session is loaded.
RejectCall(p, user) ==
    /\ packages[p].status # "none"
    /\ user = Listener
    /\ packages[p].rejection = "none"
    /\ IF packages[p].charge /\ packages[p].refunds > 0
       THEN /\ packages' = [packages EXCEPT ![p].rejection = "open"]
            /\ payouts' = payouts
       ELSE IF packages[p].charge
       THEN LET row == [packages[p] EXCEPT !.status = "refunded",
                                          !.rejection = "refunded",
                                          !.refunds = @ + 1]
            IN /\ packages' = [packages EXCEPT ![p] = row]
               /\ payouts' = CancelPayouts(
                                 PackagePostSavePayouts(payouts, p, row, FALSE, TRUE),
                                 p)
       ELSE /\ packages' = [packages EXCEPT ![p].rejection = "open"]
            /\ payouts' = CancelPayouts(payouts, p)
    /\ UNCHANGED <<sessions, balance, now, consumers, allocReq, template, balReq, chat, payoutReq, acceptReq, endReq,
                   emitted, credits, extApplied, accepted>>

\* reject_call answered 403 (not the purchase's listener) or 400 (the
\* purchase has a rejection row).
RejectCallRejected(p, user) ==
    /\ packages[p].status # "none"
    /\ user # Listener \/ packages[p].rejection # "none"
    /\ UNCHANGED vars

\* The answer of CallRejectionViewSet.process_refund to the talker of a
\* purchase with package row `row`.
ProcessRefundResponse(row) ==
    IF row.rejection = "none" THEN [code |-> 404, refunded |-> FALSE]
    ELSE IF row.rejection = "refunded" THEN [code |-> 400, refunded |-> FALSE]
    ELSE IF Paid(row) /\ row.refunds = 0 THEN [code |-> 200, refunded |-> TRUE]
    ELSE [code |-> 400, refunded |-> FALSE]

\* process_refund by the talker for a rejection without refund_issued:
\* refund_call_package refunds the charge of the payment intent at Stripe and
\* marks the purchase refunded; the rejection row gets refund_issued.
ProcessRefund(p, user) ==
    /\ packages[p].status # "none"
    /\ user = packages[p].talker
    /\ ProcessRefundResponse(packages[p]).refunded
    /\ LET row == [packages[p] EXCEPT !.status = "refunded",
                                      !.rejection = "refunded",
                                      !.refunds = @ + 1]
       IN /\ packages' = [packages EXCEPT ![p] = row]
          /\ payouts' = PackagePostSavePayouts(payouts, p, row, FALSE, TRUE)
    /\ UNCHANGED <<sessions, balance, now, consumers, allocReq, template, balReq, chat, payoutReq, acceptReq, endReq,
                   emitted, credits, extApplied, accepted>>

\* process_refund answered 403, 404 or 400: nothing is written.
ProcessRefundRejected(p, user) ==
    /\ packages[p].status # "none"
    /\ user # packages[p].talker \/ ~ProcessRefundResponse(packages[p]).refunded
    /\ UNCHANGED vars

\* ------------------------------------------------------------------- admin

\* CallSessionAdmin change form: status is an editable field with the choices
\* of CallSession.STATUS_CHOICES.  Modelled for the one edit the choices
\* describe as 'call failed to connect': a connecting session set to failed.
AdminMarkFailed(s) ==
    /\ sessions[s].status = "connecting"
    /\ sessions' = [sessions EXCEPT ![s].status = "failed"]
    /\ payouts' = MarkPayoutEarnedOnCallSessionEnd(
                      payouts, s, [sessions[s] EXCEPT !.status = "failed"],
                      FALSE, TRUE)
    /\ UNCHANGED <<packages, balance, now, consumers, allocReq, template, balReq, chat, payoutReq, acceptReq, endReq,
                   emitted, credits, extApplied, accepted>>

\* ------------------------------------------------------------------- clock

Clock ==
    /\ now < MaxTime
    /\ now' = now + 1
    /\ UNCHANGED <<packages, sessions, payouts, balance, consumers, allocReq, template, balReq, chat, payoutReq,
                   acceptReq, endReq, emitted, credits, extApplied, accepted>>

Init ==
    /\ packages = [p \in PkgIds |-> NoPackage]
    /\ sessions = [s \in SessIds |-> NoSession]
    /\ payouts = <<>>
    /\ balance = [available |-> 0, total_earned |-> 0]
    /\ now = 0
    /\ consumers = [c \in Consumers |-> NoConsumer]
    /\ allocReq = [p \in PkgIds |-> {}]
    /\ acceptReq = 0
    /\ endReq = NoReq
    /\ emitted = [s \in SessIds |-> NoEmissions]
    /\ credits = [p \in PkgIds |-> 0]
    /\ extApplied = [p \in PkgIds |-> 0]
    /\ accepted = [s \in SessIds |-> FALSE]
    /\ template = DefaultTemplate
    /\ balReq = [w \in Workers |-> NoBalReq]
    /\ chat = NoChat
    /\ payoutReq = NoPayoutRequest

\* The whole program for one call: one initial purchase, its extensions, and
\* the talker's attachment.
Next ==
    \/ \E t \in Talkers, immediate \in BOOLEAN :
           PurchasePackage(t, immediate, MaxInitialPurchases)
    \/ PurchaseRejected
    \/ \E s \in SessIds, u \in Users : ExtendMinutes(s, u)
    \/ \E p \in PkgIds : WebhookCheckoutInitial(p)
    \/ \E p \in PkgIds : WebhookPaymentSucceeded(p)
    \/ \E p \in PkgIds : WebhookCheckoutExtension(p)
    \/ \E p \in PkgIds, u \in Users, ep \in Endpoints : AllocCheck(p, u, ep)
    \/ \E p \in PkgIds, ep \in Endpoints : AllocInsert(p, ep)
    \/ \E s \in SessIds, u \in Users : AcceptLoad(s, u)
    \/ \E s \in SessIds, u \in Users : AcceptRejected(s, u)
    \/ AcceptSave
    \/ \E s \in SessIds, u \in Users : JoinCall(s, u)
    \/ \E s \in SessIds, u \in Users : EndLoad(s, u)
    \/ \E s \in SessIds, u \in Users : EndRejected(s, u)
    \/ EndSave
    \/ \E s \in SessIds : Connect("talker", s)
    \/ Disconnect("talker")
    \/ GetStatus("talker")
    \/ TickLoad("talker")
    \/ TickAct("talker")
    \/ Clock

Spec == Init /\ [][Next]_vars

\* The allocation arbitration alone: purchases, confirmations, allocation,
\* accept and end-call, for as many initial purchases as there are packages.
NextAlloc ==
    \/ \E t \in Talkers, immediate \in BOOLEAN :
           PurchasePackage(t, immediate, MaxPackages)
    \/ PurchaseRejected
    \/ \E p \in PkgIds : WebhookCheckoutInitial(p)
    \/ \E p \in PkgIds, u \in Users, ep \in Endpoints : AllocCheck(p, u, ep)
    \/ \E p \in PkgIds, ep \in Endpoints : AllocInsert(p, ep)
    \/ \E t \in Talkers : InitiateFromTemplate(t)
    \/ \E s \in SessIds, u \in Users : AcceptLoad(s, u)
    \/ AcceptSave
    \/ \E s \in SessIds, u \in Users : EndLoad(s, u)
    \/ EndSave
    \/ Clock

SpecAlloc == Init /\ [][NextAlloc]_vars

\* One call with both participants attached, each with its own timer task;
\* the purchase is paid on the spot and never extended.
NextTimers ==
    \/ \E t \in Talkers : PurchasePackage(t, TRUE, MaxInitialPurchases)
    \/ \E p \in PkgIds, u \in Users, ep \in Endpoints : AllocCheck(p, u, ep)
    \/ \E p \in PkgIds, ep \in Endpoints : AllocInsert(p, ep)
    \/ \E s \in SessIds, u \in Users : AcceptLoad(s, u)
    \/ AcceptSave
    \/ \E s \in SessIds, u \in Users : EndLoad(s, u)
    \/ \E s \in SessIds, u \in Users : EndRejected(s, u)
    \/ EndSave
    \/ \E c \in Consumers, s \in SessIds : Connect(c, s)
    \/ \E c \in Consumers : Disconnect(c)
    \/ \E c \in Consumers : GetStatus(c)
    \/ \E c \in Consumers : TickLoad(c)
    \/ \E c \in Consumers : TickAct(c)
    \/ Clock

SpecTimers == Init /\ [][NextTimers]_vars

\* The admission of attachments: one purchase paid through checkout, whose
\* payment webhooks arrive in any order, the session allocated for it, an
\* administrator marking it failed, and attach attempts by anyone.
NextAttach ==
    \/ \E t \in Talkers : PurchasePackage(t, FALSE, MaxInitialPurchases)
    \/ \E p \in PkgIds : WebhookCheckoutInitial(p)
    \/ \E p \in PkgIds : WebhookPaymentFailed(p)
    \/ \E p \in PkgIds, u \in Users, ep \in Endpoints : AllocCheck(p, u, ep)
    \/ \E p \in PkgIds, ep \in Endpoints : AllocInsert(p, ep)
    \/ \E s \in SessIds, u \in Users : AcceptLoad(s, u)
    \/ AcceptSave
    \/ \E s \in SessIds, u \in Users : EndLoad(s, u)
    \/ EndSave
    \/ \E s \in SessIds : AdminMarkFailed(s)
    \/ \E c \in Consumers, s \in SessIds : Connect(c, s)
    \/ \E s \in SessIds, u \in Users : ConnectRejected(s, u)
    \/ \E c \in Consumers : Disconnect(c)
    \/ \E c \in Consumers : TickLoad(c)
    \/ \E c \in Consumers : TickAct(c)
    \/ Clock

SpecAttach == Init /\ [][NextAttach]_vars

\* Pricing: any valid template, edited at any time, and purchases made from
\* it and confirmed.
InitAmounts ==
    /\ template \in [price : Prices, app_fee_percentage : FeePercentages]
    /\ packages = [p \in PkgIds |-> NoPackage]
    /\ sessions = [s \in SessIds |-> NoSession]
    /\ payouts = <<>>
    /\ balance = [available |-> 0, total_earned |-> 0]
    /\ now = 0
    /\ consumers = [c \in Consumers |-> NoConsumer]
    /\ allocReq = [p \in PkgIds |-> {}]
    /\ acceptReq = 0
    /\ endReq = NoReq
    /\ emitted = [s \in SessIds |-> NoEmissions]
    /\ credits = [p \in PkgIds |-> 0]
    /\ extApplied = [p \in PkgIds |-> 0]
    /\ accepted = [s \in SessIds |-> FALSE]
    /\ balReq = [w \in Workers |-> NoBalReq]
    /\ chat = NoChat
    /\ payoutReq = NoPayoutRequest

NextAmounts ==
    \/ \E price \in Prices, pct \in FeePercentages : EditTemplate(price, pct)
    \/ \E t \in Talkers, immediate \in BOOLEAN :
           PurchasePackage(t, immediate, MaxInitialPurchases)
    \/ \E p \in PkgIds : WebhookCheckoutInitial(p)

SpecAmounts == InitAmounts /\ [][NextAmounts]_vars

\* The listener's balance row under credits and debits issued by the
\* workers of the deployment, each a load followed by a save.
Amounts == 1..2

NextBalance ==
    \/ \E w \in Workers, x \in Amounts : CreditLoad(w, x)
    \/ \E w \in Workers : CreditSave(w)
    \/ \E w \in Workers, x \in Amounts : DeductLoad(w, x)
    \/ \E w \in Workers : DeductSave(w)

SpecBalance == Init /\ [][NextBalance]_vars

\* Withdrawals: the listener holds earned payouts of completed calls, of
\* purchases made from templates of any valid price with no commission, and
\* asks for amounts through the three withdrawal paths.
PayoutAmounts == 1..MaxPrice
TransferPaths == {"instant_transfer", "bank_transfer"}

InitWithdraw ==
    /\ \E amt \in [PkgIds -> PayoutAmounts] :
          /\ packages = [p \in PkgIds |->
                 [NoPackage EXCEPT !.status = "completed", !.talker = BuyerOf(p),
                                   !.total_amount = amt[p],
                                   !.listener_amount = amt[p]]]
          /\ payouts = [p \in PkgIds |->
                 [pkg |-> p, status |-> "earned", is_extension |-> FALSE,
                  amount |-> amt[p]]]
    /\ sessions = [s \in SessIds |-> NoSession]
    /\ balance = [available |-> 0, total_earned |-> 0]
    /\ now = 0
    /\ consumers = [c \in Consumers |-> NoConsumer]
    /\ allocReq = [p \in PkgIds |-> {}]
    /\ acceptReq = 0
    /\ endReq = NoReq
    /\ emitted = [s \in SessIds |-> NoEmissions]
    /\ credits = [p \in PkgIds |-> 0]
    /\ extApplied = [p \in PkgIds |-> 0]
    /\ accepted = [s \in SessIds |-> FALSE]
    /\ template = DefaultTemplate
    /\ balReq = [w \in Workers |-> NoBalReq]
    /\ chat = NoChat
    /\ payoutReq = NoPayoutRequest

NextWithdraw ==
    \/ \E path \in TransferPaths, a \in 1..(MaxPackages * MaxPrice) :
           RequestPayoutAmount(path, a)
    \/ \E a \in 1..(MaxPackages * MaxPrice) : CreatePayoutLinkAmount(a)
    \/ PayoutCollection

SpecWithdraw == InitWithdraw /\ [][NextWithdraw]_vars

\* The chat endpoint of one conversation under blocking and unblocking.
NextChat ==
    \/ \E b \in BOOLEAN : SetBlocked(b)
    \/ \E u \in Users : ChatConnect(u)
    \/ \E u \in Users : ChatDisconnect(u)
    \/ \E u \in Users, kind \in {"chat_message", "file_message"} :
           ChatReceive(u, kind)

SpecChat == Init /\ [][NextChat]_vars

\* Rejection and refund of one purchase: paid on the spot or through
\* checkout with its two confirmation webhooks, allocated, accepted or ended,
\* rejected by the listener, refunded on the talker's request, and its
\* payout withdrawn by the listener.
NextRefund ==
    \/ \E t \in Talkers, immediate \in BOOLEAN :
           PurchasePackage(t, immediate, MaxInitialPurchases)
    \/ \E p \in PkgIds : WebhookCheckoutInitial(p)
    \/ \E p \in PkgIds : WebhookPaymentSucceeded(p)
    \/ \E p \in PkgIds, u \in Users, ep \in Endpoints : AllocCheck(p, u, ep)
    \/ \E p \in PkgIds, ep \in Endpoints : AllocInsert(p, ep)
    \/ \E s \in SessIds, u \in Users : AcceptLoad(s, u)
    \/ AcceptSave
    \/ \E s \in SessIds, u \in Users : EndLoad(s, u)
    \/ EndSave
    \/ \E p \in PkgIds, u \in Users : RejectCall(p, u)
    \/ \E p \in PkgIds, u \in Users : RejectCallRejected(p, u)
    \/ \E p \in PkgIds, u \in Users : ProcessRefund(p, u)
    \/ \E p \in PkgIds, u \in Users : ProcessRefundRejected(p, u)
    \/ \E k \in 1..MaxPackages : CreatePayoutLink(k)
    \/ PayoutCollection
    \/ ProcessPayout
    \/ \E k \in 1..MaxPackages : RequestPayout(k)
    \/ Clock

SpecRefund == Init /\ [][NextRefund]_vars

\* ------------------------------------------------------------------ claims

OpenSessions == {s \in SessIds : sessions[s].status \in OpenStatuses}

C2_CreditedOnce == \A p \in PkgIds : credits[p] <= 1

\* C3: however often the webhook of one extension purchase is delivered, its
\* minutes are added once, it has one payout row, and minutes_extended is
\* published once for it.
C3_ExtensionAppliedOnce ==
    \A p \in PkgIds :
        packages[p].is_extension =>
            /\ extApplied[p] <= 1
            /\ Cardinality(PayoutsOf(payouts, p)) <= 1
            /\ emitted[packages[p].meta_session].minutes_extended <= 1

LinkedConfirmed(s) ==
    {p \in PkgIds :
        /\ packages[p].status \in {"confirmed", "used", "in_progress", "completed"}
        /\ \/ sessions[s].call_package = p
           \/ packages[p].is_extension /\ packages[p].meta_session = s}

\* C5: a session that is ended or timeout and whose initial purchase is
\* confirmed has exactly one payout row for each confirmed purchase linked to
\* it, and that row is earned, completed or cancelled.
C5_TerminalPayoutsSettled ==
    \A s \in SessIds :
        (/\ sessions[s].status \in {"ended", "timeout"}
         /\ sessions[s].call_package \in LinkedConfirmed(s))
        => \A p \in LinkedConfirmed(s) :
              /\ Cardinality(PayoutsOf(payouts, p)) = 1
              /\ \A i \in PayoutsOf(payouts, p) :
                    payouts[i].status \in {"earned", "completed", "cancelled"}

\* C6: the listener's lifetime earnings equal the sum of the amounts of the
\* payout rows that are earned, pending or completed.
C6_LifetimeEarnedMatchesPayouts ==
    balance.total_earned =
        ListenerAmount * Cardinality({i \in 1..Len(payouts) :
            payouts[i].status \in {"earned", "pending", "completed"}})

\* C7: a session that is ended or timeout keeps that status in every step.
C7_TerminalIsPermanent ==
    [][\A s \in SessIds :
          sessions[s].status \in {"ended", "timeout"}
              => sessions'[s].status = sessions[s].status]_vars

\* C8: time_warning is published at most once for a session.
C8_WarningAtMostOnce == \A s \in SessIds : emitted[s].time_warning <= 1

\* The call_status frame cs yields reports the full purchase and a stopped timer.
FrameShowsNoCountdown(cs) ==
    /\ SendCallStatus(cs).remaining_minutes = SendCallStatus(cs).total_minutes
    /\ ~SendCallStatus(cs).timer_running

\* C9: as long as a session has not been accepted, its started_at is null, no
\* time_warning or time_update has been published for it, it is not timeout,
\* every call_status frame an attachment sends (on attach and on get_status,
\* from the instance it holds) reports the remaining minutes equal to the
\* total with the timer not running, and so does the minutes_extended event
\* (the extension webhook publishes it for the row it leaves behind).
C9_NoCountdownBeforeAccept ==
    \A s \in SessIds :
        (sessions[s].status # "none" /\ ~accepted[s]) =>
            /\ sessions[s].started_at = None
            /\ emitted[s].time_warning = 0
            /\ emitted[s].time_update = 0
            /\ sessions[s].status # "timeout"
            /\ \A c \in Consumers :
                  (consumers[c].pc # "closed" /\ consumers[c].sid = s)
                      => FrameShowsNoCountdown(consumers[c].copy)
            /\ MinutesExtendedEvent(sessions[s]).remaining_minutes
                   = MinutesExtendedEvent(sessions[s]).new_total_minutes

\* C9 witness: a connecting session nobody accepted, extended once, whose
\* attached talker's timer task ran a pass after all purchased minutes of wall
\* time had gone by.
C9_Witness ==
    \E s \in SessIds :
        /\ sessions[s].status = "connecting"
        /\ ~accepted[s]
        /\ emitted[s].minutes_extended > 0
        /\ consumers["talker"].sid = s
        /\ consumers["talker"].tick_at # None
        /\ consumers["talker"].tick_at >= sessions[s].total

\* C10: the step in which a session is accepted takes it from connecting to
\* active, sets started_at to the current time and publishes call_accepted.
C10_AcceptEffect ==
    [][\A s \in SessIds :
          (~accepted[s] /\ accepted'[s]) =>
              /\ sessions[s].status = "connecting"
              /\ sessions'[s].status = "active"
              /\ sessions'[s].started_at = now
              /\ emitted'[s].call_accepted = emitted[s].call_accepted + 1]_vars

\* C11: a session that was accepted and is ended or timeout stores
\* minutes_used no greater than its total_minutes_purchased.
C11_MinutesUsedWithinPurchase ==
    \A s \in SessIds :
        (accepted[s] /\ sessions[s].status \in {"ended", "timeout"})
            => sessions[s].minutes_used <= sessions[s].total

\* C12: no step lowers the stored total_minutes_purchased of a session.
C12_TotalNeverDecreases ==
    [][\A s \in SessIds :
          sessions[s].status # "none"
              => sessions'[s].total >= sessions[s].total]_vars

\* C13: the confirmation of an extension whose session is already ended,
\* timeout or failed leaves the session's total and the listener's balance
\* as they were, and every payout row of the extension is cancelled after it.
C13_LateExtensionRejected ==
    [][\A p \in PkgIds :
          (/\ WebhookCheckoutExtension(p)
           /\ sessions[packages[p].meta_session].status \in TerminalStatuses)
          => /\ sessions'[packages[p].meta_session].total
                    = sessions[packages[p].meta_session].total
             /\ balance' = balance
             /\ \A i \in PayoutsOf(payouts', p) :
                    payouts'[i].status = "cancelled"]_vars

\* SpecTimers with the scheduling the servers give: the clock advances, a
\* request that passed its checks runs to its end, and a timer task that
\* exists (created by connect, cancelled by disconnect) gets to run its next
\* pass.  Nothing obliges a client to send a request or to attach.
SpecTimersFair ==
    /\ SpecTimers
    /\ WF_vars(Clock)
    /\ WF_vars(AcceptSave)
    /\ WF_vars(EndSave)
    /\ \A p \in PkgIds, ep \in Endpoints : WF_vars(AllocInsert(p, ep))
    /\ \A c \in Consumers : WF_vars(TickLoad(c)) /\ WF_vars(TickAct(c))

\* The purchased minutes of session s have run out on the server clock.
TimeRanOut(s) ==
    /\ sessions[s].status = "active"
    /\ sessions[s].started_at # None
    /\ now - sessions[s].started_at >= sessions[s].total

\* C14: an active session whose elapsed time has reached its purchased total
\* eventually leaves the active status for a terminal one (timeout, or ended
\* by a participant), whether or not an attachment is still open.
C14_ExpiredCallIsTimedOut ==
    \A s \in SessIds :
        TimeRanOut(s) ~> (sessions[s].status \in {"timeout", "ended"})

C17_NoAttachToTerminal ==
    [][\A c \in Consumers :
          (consumers[c].pc = "closed" /\ consumers'[c].pc # "closed")
              => sessions[consumers'[c].sid].status \notin TerminalStatuses]_vars

\* C18: an attachment is admitted only while the session's initial purchase
\* is confirmed or in_progress, and an attach attempt by a user who is not a
\* participant of the session is never admitted.
C18_AttachNeedsValidPayment ==
    [][/\ \A c \in Consumers :
             (consumers[c].pc = "closed" /\ consumers'[c].pc # "closed")
                 => LET s == consumers'[c].sid
                    IN /\ sessions[s].call_package # 0
                       /\ packages[sessions[s].call_package].status
                              \in {"confirmed", "in_progress"}
       /\ \A s \in SessIds, u \in Users :
             (ConnectRejected(s, u) /\ u \notin {sessions[s].talker, Listener})
                 => consumers' = consumers
      ]_vars

\* C19: whenever the listener has a connecting or active session, a request
\* to buy an initial package for that listener is answered 400 with a list of
\* at most 10 free other listeners (and writes no purchase row).
C19_BusyRejectionListsAlternatives ==
    ~IsListenerAvailable =>
        LET r == PurchaseResponse(IsListenerAvailable, IsListenerAvailable)
        IN /\ r.code = 400
           /\ r.has_list
           /\ Len(r.available_listeners) <= SuggestionLimit
           /\ ~ENABLED (\E t \in Talkers, immediate \in BOOLEAN :
                           PurchasePackage(t, immediate, MaxPackages))

SessionsOf(p) == {s \in SessIds : sessions[s].call_package = p}

\* C21: in every reachable state each purchase is referenced by at most one
\* session.
C21_OneSessionPerPurchase ==
    \A p \in PkgIds : Cardinality(SessionsOf(p)) <= 1

\* C21 witness: the session of a purchase has ended, the purchase is still
\* confirmed (so start_call's checks pass for it again), and a session id is
\* free for another row.
C21_Witness ==
    \E p \in PkgIds, s \in SessIds :
        /\ sessions[s].call_package = p
        /\ sessions[s].status = "ended"
        /\ packages[p].status = "confirmed"
        /\ IsListenerAvailable
        /\ \E q \in SessIds : sessions[q].status = "none"

\* The lifecycle order of purchase statuses: pending, confirmed, in_progress,
\* completed ('used', the status the extension webhook writes, counts as
\* completed), with cancelled and refunded reachable from the statuses before
\* completed.
PurchaseRank(st) ==
    CASE st = "pending" -> 1
      [] st = "confirmed" -> 2
      [] st = "in_progress" -> 3
      [] st \in {"completed", "used"} -> 4
      [] OTHER -> 5

PurchaseMoveAllowed(a, b) ==
    \/ a = b
    \/ /\ PurchaseRank(a) < PurchaseRank(b)
       /\ PurchaseRank(b) <= 4
    \/ /\ PurchaseRank(a) <= 3
       /\ b \in {"cancelled", "refunded"}

\* C22: a purchase row comes into being pending (or confirmed by the purchase
\* request whose payment succeeded on the spot), and every later step moves
\* its status forward in the lifecycle.
C22_PurchaseStatusForward ==
    [][\A p \in PkgIds :
          IF packages[p].status = "none"
          THEN \/ packages'[p].status \in {"none", "pending"}
               \/ /\ packages'[p].status = "confirmed"
                  /\ \E t \in Talkers : PurchasePackage(t, TRUE, MaxPackages)
          ELSE PurchaseMoveAllowed(packages[p].status, packages'[p].status)
      ]_vars

\* C23: the delivery of a payment-failed event for purchase p leaves p
\* cancelled, and every connecting session whose initial purchase is p failed.
C23_PaymentFailedFailsSession ==
    [][\A p \in PkgIds :
          WebhookPaymentFailed(p) =>
              /\ packages'[p].status = "cancelled"
              /\ \A s \in SessIds :
                    (sessions[s].call_package = p
                     /\ sessions[s].status = "connecting")
                        => sessions'[s].status = "failed"]_vars

\* C24: the step in which the listener rejects a confirmed purchase whose
\* session is connecting issues a refund, leaves the purchase refunded and
\* its payout rows cancelled, and leaves that session failed.
C24_RejectionRefundsAndFails ==
    [][\A p \in PkgIds, s \in SessIds :
          (/\ packages[p].rejection = "none"
           /\ packages'[p].rejection # "none"
           /\ packages[p].status = "confirmed"
           /\ sessions[s].call_package = p
           /\ sessions[s].status = "connecting")
          => /\ packages'[p].refunds = packages[p].refunds + 1
             /\ packages'[p].status = "refunded"
             /\ \A i \in PayoutsOf(payouts', p) :
                    payouts'[i].status = "cancelled"
             /\ sessions'[s].status = "failed"]_vars

\* C25: for a purchase that is refunded, a further refund request is
\* answered as a success and creates no refund.
C25_RefundReplayIsSuccess ==
    \A p \in PkgIds :
        packages[p].status = "refunded" =>
            /\ ProcessRefundResponse(packages[p]).code = 200
            /\ ~ProcessRefundResponse(packages[p]).refunded
            /\ packages[p].refunds <= 1

C27_AmountsSnapshot ==
    /\ [](\A p \in PkgIds :
             packages[p].status # "none" =>
                 /\ packages[p].app_fee + packages[p].listener_amount
                        = packages[p].total_amount
                 /\ 0 <= packages[p].listener_amount
                 /\ packages[p].listener_amount <= packages[p].total_amount)
    /\ [][\A p \in PkgIds :
             /\ (packages[p].status = "none" /\ packages'[p].status # "none") =>
                    LET exact == template.price * template.app_fee_percentage
                        fee == packages'[p].app_fee
                    IN /\ packages'[p].total_amount = template.price
                       /\ 2 * (fee * 10000 - exact) <= 10000
                       /\ 2 * (exact - fee * 10000) <= 10000
                       /\ packages'[p].listener_amount = template.price - fee
             /\ packages[p].status # "none" =>
                    /\ packages'[p].total_amount = packages[p].total_amount
                    /\ packages'[p].app_fee = packages[p].app_fee
                    /\ packages'[p].listener_amount = packages[p].listener_amount
       ]_vars

\* A purchase holds the amounts of a template that has since been edited, and
\* its fee was rounded up from a fraction of a cent.
C27_Witness ==
    \E p \in PkgIds :
        /\ packages[p].status = "confirmed"
        /\ packages[p].total_amount # template.price
        /\ packages[p].app_fee * 10000 > packages[p].total_amount * 7500
        /\ packages[p].app_fee < packages[p].total_amount

\* C28: a credit of x adds x to the available balance and to the lifetime
\* earnings of the balance it was called on; a debit of x that this balance
\* covers subtracts x from the available balance alone and returns true, a
\* debit it does not cover returns false and writes nothing; so the stored
\* available balance is never negative and the stored lifetime earnings
\* never decrease.
C28_CreditDebitEffects ==
    /\ [](balance.available >= 0)
    /\ [][/\ \A w \in Workers :
               (balReq[w].op = "credit" /\ balReq'[w].op = "none") =>
                   /\ balance'.available
                          = balReq[w].copy.available + balReq[w].amount
                   /\ balance'.total_earned
                          = balReq[w].copy.total_earned + balReq[w].amount
          /\ \A w \in Workers :
               (balReq[w].op = "debit" /\ balReq'[w].op = "none") =>
                   /\ balance'.total_earned = balance.total_earned
                   /\ DeductReturns(balReq[w].copy, balReq[w].amount)
                          = (balReq[w].amount <= balReq[w].copy.available)
                   /\ balance'.available =
                          IF balReq[w].amount <= balReq[w].copy.available
                          THEN balReq[w].copy.available - balReq[w].amount
                          ELSE balance.available
          /\ balance'.total_earned >= balance.total_earned]_vars

\* C29: credits to the listener's balance are serialised: a credit that
\* completes while another credit is in flight leaves both amounts in the
\* balance when the other completes, so the sum of the credits made is what
\* the lifetime earnings hold once no credit is in flight.
C29_NoLostCredit ==
    [][\A w \in Workers :
          (balReq[w].op = "credit" /\ balReq'[w].op = "none") =>
              /\ balance'.available >= balance.available + balReq[w].amount
              /\ balance'.total_earned = balance.total_earned + balReq[w].amount
      ]_vars

\* The order of payout statuses: processing, earned, pending, completed.
PayoutRank(st) ==
    CASE st = "processing" -> 1
      [] st = "earned" -> 2
      [] st = "pending" -> 3
      [] st = "completed" -> 4
      [] OTHER -> 0

PayoutMoveAllowed(a, b) ==
    \/ a = b
    \/ b \in {"cancelled", "failed"} /\ a \notin {"cancelled", "completed"}
    \/ b = "failed" /\ a = "completed"
    \/ PayoutRank(a) > 0 /\ PayoutRank(a) < PayoutRank(b)

\* C30: the status of a payout row only moves forward along processing,
\* earned, pending, completed, or to cancelled or failed; a cancelled row
\* stays cancelled and a completed row is never cancelled.
C30_PayoutStatusForward ==
    [][\A i \in 1..Len(payouts) :
          PayoutMoveAllowed(payouts[i].status, payouts'[i].status)]_vars

\* C31: every payout row of an extension purchase carries is_extension, no
\* payout row of an initial purchase does, and a row keeps its flag (and its
\* purchase) in every step.
C31_PayoutExtensionFlag ==
    /\ [](\A i \in 1..Len(payouts) :
             payouts[i].is_extension = packages[payouts[i].pkg].is_extension)
    /\ [][\A i \in 1..Len(payouts) :
             /\ i <= Len(payouts')
             /\ payouts'[i].pkg = payouts[i].pkg
             /\ payouts'[i].is_extension = payouts[i].is_extension]_vars

\* C32: a talker the listener has blocked is still admitted to the
\* conversation's chat endpoint, and a chat_message or file_message sent
\* under the block is answered with an error frame that says messaging is
\* blocked, with no Message stored and nothing sent to the group.
C32_BlockedTalkerAttachesButCannotSend ==
    /\ (chat.last.op = "connect" /\ chat.last.user = ChatTalker
        /\ chat.last.blocked)
           => chat.last.answer = "connection_established"
    /\ (chat.last.op \in {"chat_message", "file_message"} /\ chat.last.blocked)
           => /\ chat.last.answer = "error: Messaging is blocked"
              /\ ~chat.last.stored
              /\ ~chat.last.sent

\* C33: an active session goes to timeout only when the time elapsed since
\* started_at has reached the total minutes the store holds at that moment,
\* extensions already committed included, and the step keeps that total.
C33_TimeoutHonoursExtension ==
    [][\A s \in SessIds :
          (sessions[s].status = "active" /\ sessions'[s].status = "timeout")
              => /\ now - sessions[s].started_at >= sessions[s].total
                 /\ sessions'[s].total = sessions[s].total]_vars

\* The attachments whose monitor_call_time task is running for session s.
Runners(s) == {c \in Consumers : consumers[c].pc # "closed" /\ consumers[c].sid = s}

\* C34: at most one timer loop runs for a session, however many attachments
\* it has.
C34_OneRunnerPerSession ==
    \A s \in SessIds : Cardinality(Runners(s)) <= 1

\* C35: the step that takes an active session to timeout publishes call_ending
\* and then call_ended to the session's group, the event on which every
\* attachment of the session closes.
C35_TimeoutPublishesEndingThenEnded ==
    [][\A s \in SessIds :
          (sessions[s].status = "active" /\ sessions'[s].status = "timeout")
              => /\ emitted'[s].call_ending = emitted[s].call_ending + 1
                 /\ emitted'[s].call_ended = emitted[s].call_ended + 1]_vars

\* C36: a timer loop that has reloaded its session in a terminal status has
\* exited: no running loop holds a reloaded instance that is ended, timeout
\* or failed.
C36_LoopExitsOnTerminal ==
    \A c \in Consumers :
        (consumers[c].pc # "closed" /\ consumers[c].tick_at # None)
            => consumers[c].copy.status \notin TerminalStatuses

\* The purchases linked to session s: its own purchase and the purchases
\* whose call_session points at it.
LinkedPurchases(s) ==
    {p \in PkgIds : /\ packages[p].status # "none"
                    /\ \/ sessions[s].call_package = p
                       \/ packages[p].call_session = s}

\* C37: while a session is connecting or active, no purchase linked to it is
\* completed and no payout row of such a purchase is earned.
C37_NothingEarnedWhileOpen ==
    \A s \in SessIds :
        sessions[s].status \in OpenStatuses =>
            \A p \in LinkedPurchases(s) :
                /\ packages[p].status # "completed"
                /\ \A i \in PayoutsOf(payouts, p) : payouts[i].status # "earned"

\* C38: the step that ends a session which never became active (started_at
\* unset) credits nothing to the listener's balance and turns no payout row
\* to earned.
C38_NoCreditWithoutActive ==
    [][\A s \in SessIds :
          (/\ sessions[s].status = "connecting"
           /\ sessions[s].started_at = None
           /\ sessions'[s].status = "ended")
              => /\ balance' = balance
                 /\ \A i \in 1..Len(payouts) :
                        payouts'[i].status = "earned"
                            => payouts[i].status = "earned"]_vars

\* C39: once a rejection row exists for the purchase of a session, no step
\* makes that session active and no step credits the listener for that
\* purchase.
C39_RejectedCallNeverStarts ==
    [][\A s \in SessIds :
          LET p == sessions[s].call_package
          IN (p # 0 /\ packages[p].rejection # "none")
                 => /\ sessions'[s].status = "active"
                        => sessions[s].status = "active"
                    /\ credits'[p] = credits[p]]_vars

\* The rows of the table before a step that the step took out of earned.
MovedOutOfEarned ==
    {i \in 1..Len(payouts) :
        payouts[i].status = "earned" /\ payouts'[i].status # "earned"}

\* C40: a withdrawal request for amount a takes out of earned rows whose
\* amounts, as stored after the request, sum to exactly a, and leaves the
\* sum of the amounts of all the listener's payout rows unchanged, on the
\* payout-link path and on the instant-transfer and bank-transfer paths.
C40_WithdrawalMovesExactAmount ==
    [][payoutReq' # payoutReq =>
          /\ SumAmounts(payouts', MovedOutOfEarned) = payoutReq'.amount
          /\ SumAmounts(payouts', 1..Len(payouts'))
                 = SumAmounts(payouts, 1..Len(payouts))]_vars

====
